---- MODULE Spec2Model ----
(***************************************************************************)
(* Model of the Filelearn analysis pipeline:                               *)
(*   app.py             analyze_api    (POST /analyze)                     *)
(*   document_parser.py read_image, read_document                          *)
(*   llm_analyzer.py    build_analysis_chain, analyze_content              *)
(*                                                                         *)
(* Text is a sequence of tokens (characters, or whole words where the code *)
(* never looks inside them); bytes are a sequence of integers.  A Python   *)
(* exception is a record [type, msg]; an HTTPException also carries        *)
(* status and detail.  Calls into third-party libraries (OpenCV,           *)
(* tesseract, the document loaders, the remote model) are nondeterministic *)
(* over the outcomes the library can produce.                              *)
(***************************************************************************)
EXTENDS Integers, Sequences, FiniteSets, TLC

VARIABLES
    request,        \* the multipart form: [question, file]; file = NoFile or [filename, bytes]
    pc,             \* stage of analyze_api
    text_content,   \* analyze_api local
    content,        \* analyze_api local
    result,         \* analyze_api local
    json_result,    \* analyze_api local: outcome of json.loads
    response,       \* what the client receives: [status, detail, body]
    caught,         \* analyze_api local: the exception e of line 80
    ri,             \* frame of read_image
    rd,             \* frame of read_document
    ac,             \* frame of analyze_content
    tempfiles,      \* temporary files present on disk
    calls           \* how often each collaborator was entered

handler == <<request, pc, text_content, content, result, json_result, response, caught>>
vars == <<handler, ri, rd, ac, tempfiles, calls>>

(***************************************************************************)
(* Bounds                                                                  *)
(***************************************************************************)
MaxBlobLen == 2
MaxOcrLen == 3

(***************************************************************************)
(* Python values                                                           *)
(***************************************************************************)
None == [t |-> "None"]
Unbound == [t |-> "unbound"]
NoFile == [t |-> "nofile"]
Idle == [pc |-> "idle"]

Whitespace == {" ", "\n"}

RECURSIVE lstrip(_)
lstrip(s) == IF s # <<>> /\ Head(s) \in Whitespace THEN lstrip(Tail(s)) ELSE s

RECURSIVE rstrip(_)
rstrip(s) == IF s # <<>> /\ s[Len(s)] \in Whitespace THEN rstrip(SubSeq(s, 1, Len(s) - 1)) ELSE s

strip(s) == rstrip(lstrip(s))

LowerChar(c) ==
    CASE c = "A" -> "a" [] c = "D" -> "d" [] c = "F" -> "f" [] c = "G" -> "g"
      [] c = "I" -> "i" [] c = "J" -> "j" [] c = "P" -> "p" [] c = "Y" -> "y"
      [] OTHER -> c

\* variant that leaves the letters as they are
lower_identity(s) == s

lower(s) == [i \in 1..Len(s) |-> LowerChar(s[i])]

endswith(s, suf) == Len(s) >= Len(suf) /\ SubSeq(s, Len(s) - Len(suf) + 1, Len(s)) = suf

endswith_any(s, sufs) == \E suf \in sufs : endswith(s, suf)

LastIndexOf(s, c) ==
    IF \E i \in 1..Len(s) : s[i] = c
    THEN CHOOSE i \in 1..Len(s) : s[i] = c /\ \A j \in (i + 1)..Len(s) : s[j] # c
    ELSE 0

\* s.split(".")[-1]
split_last(s) == SubSeq(s, LastIndexOf(s, ".") + 1, Len(s))

\* os.path.splitext(p)[-1]: from the last dot of the base name, unless that dot leads it
splitext_ext(p) ==
    LET base == SubSeq(p, LastIndexOf(p, "/") + 1, Len(p))
        d == LastIndexOf(base, ".")
    IN IF d > 1 /\ \E i \in 1..(d - 1) : base[i] # "."
       THEN SubSeq(base, d, Len(base))
       ELSE <<>>

RECURSIVE join(_, _)
join(sep, parts) ==
    IF parts = <<>> THEN <<>>
    ELSE IF Len(parts) = 1 THEN parts[1]
    ELSE parts[1] \o sep \o join(sep, Tail(parts))

RECURSIVE Seqs(_, _)
Seqs(S, n) == IF n = 0 THEN {<<>>} ELSE Seqs(S, n - 1) \cup {Append(s, x) : s \in Seqs(S, n - 1), x \in S}

(***************************************************************************)
(* json.loads and JSONResponse                                             *)
(* A payload is a sequence of JSON tokens.  A token in JsonStrings is the  *)
(* string literal of that name; any other word is bare text.               *)
(***************************************************************************)
JsonStrings ==
    {"logical_analysis", "correctness_evaluation", "overall_score", "suggestions", "raw_output", "x", "y", "z"}
IntTokens == {"7", "8"}
OverflowTokens == {"1e999"}
NanTokens == {"NaN", "Infinity"}

IntOf(t) == CASE t = "7" -> 7 [] t = "8" -> 8

JInt(n) == [t |-> "int", n |-> n]
JFloat(f) == [t |-> "float", f |-> f]
JStr(s) == [t |-> "str", s |-> s]
JText(s) == [t |-> "text", s |-> s]
JArr(a) == [t |-> "arr", a |-> a]
JObj(o) == [t |-> "obj", o |-> o]
EmptyDict == [k \in {} |-> None]

ParseFail == [ok |-> FALSE, val |-> None, next |-> 0]
Parsed(v, n) == [ok |-> TRUE, val |-> v, next |-> n]

RECURSIVE ParseValue(_, _, _)
RECURSIVE ParseMembers(_, _, _, _)
RECURSIVE ParseElements(_, _, _, _)

\* one JSON value starting at s[i]; consts are the bare constants the decoder accepts
ParseValue(s, i, consts) ==
    IF i > Len(s) THEN ParseFail
    ELSE LET tk == s[i] IN
         CASE tk \in IntTokens -> Parsed(JInt(IntOf(tk)), i + 1)
           [] tk \in OverflowTokens -> Parsed(JFloat("inf"), i + 1)
           [] tk \in consts -> Parsed(JFloat(IF tk = "NaN" THEN "nan" ELSE "inf"), i + 1)
           [] tk \in JsonStrings -> Parsed(JStr(<<tk>>), i + 1)
           [] tk = "{" ->
                IF i + 1 <= Len(s) /\ s[i + 1] = "}"
                THEN Parsed(JObj(EmptyDict), i + 2)
                ELSE ParseMembers(s, i + 1, EmptyDict, consts)
           [] tk = "[" ->
                IF i + 1 <= Len(s) /\ s[i + 1] = "]"
                THEN Parsed(JArr(<<>>), i + 2)
                ELSE ParseElements(s, i + 1, <<>>, consts)
           [] OTHER -> ParseFail

\* key : value (, key : value)* }   a repeated key keeps its last value
ParseMembers(s, i, acc, consts) ==
    IF i + 1 > Len(s) \/ s[i] \notin JsonStrings \/ s[i + 1] # ":" THEN ParseFail
    ELSE LET v == ParseValue(s, i + 2, consts) IN
         IF ~v.ok \/ v.next > Len(s) THEN ParseFail
         ELSE LET acc2 == (s[i] :> v.val) @@ acc IN
              IF s[v.next] = "}" THEN Parsed(JObj(acc2), v.next + 1)
              ELSE IF s[v.next] = "," THEN ParseMembers(s, v.next + 1, acc2, consts)
              ELSE ParseFail

\* value (, value)* ]
ParseElements(s, i, acc, consts) ==
    LET v == ParseValue(s, i, consts) IN
    IF ~v.ok \/ v.next > Len(s) THEN ParseFail
    ELSE LET acc2 == Append(acc, v.val) IN
         IF s[v.next] = "]" THEN Parsed(JArr(acc2), v.next + 1)
         ELSE IF s[v.next] = "," THEN ParseElements(s, v.next + 1, acc2, consts)
         ELSE ParseFail

\* the whole text must be one value
ParseDocument(s, consts) ==
    LET v == ParseValue(s, 1, consts) IN
    IF v.ok /\ v.next = Len(s) + 1 THEN v ELSE ParseFail

\* json.loads of Python: also accepts the bare constants NaN and Infinity
json_loads(s) == ParseDocument(s, NanTokens)

\* the JSON grammar proper
IsValidJSON(s) == ParseDocument(s, {}).ok

RECURSIVE Finite(_)
Finite(v) ==
    CASE v.t = "float" -> FALSE
      [] v.t = "arr" -> \A i \in 1..Len(v.a) : Finite(v.a[i])
      [] v.t = "obj" -> \A k \in DOMAIN v.o : Finite(v.o[k])
      [] OTHER -> TRUE

(***************************************************************************)
(* Exceptions and HTTP responses                                           *)
(***************************************************************************)
Exc(type, msg) == [type |-> type, status |-> 0, detail |-> <<>>, msg |-> msg]

StatusText(n) == CASE n = 400 -> "400" [] n = 500 -> "500" [] OTHER -> "200"

\* starlette's HTTPException prints as "<status>: <detail>"
HTTPException(status, detail) ==
    [type |-> "HTTPException", status |-> status, detail |-> detail,
     msg |-> <<StatusText(status), ": ">> \o detail]

str_exc(e) == e.msg

NoException == [type |-> "none", status |-> 0, detail |-> <<>>, msg |-> <<>>]

\* what the framework sends for an HTTPException leaving the handler
ErrorResponse(e) == [t |-> "response", status |-> e.status, detail |-> e.detail, body |-> None]

\* JSONResponse(content=c): status 200; rendering uses allow_nan=False and
\* raises ValueError on a float that is not finite
JSONResponse(c) ==
    IF Finite(c)
    THEN [raised |-> FALSE, resp |-> [t |-> "response", status |-> 200, detail |-> <<>>, body |-> c]]
    ELSE [raised |-> TRUE, resp |-> None]

MSG_MISSING_FILE == <<"file-required">>          \* app.py:49, the missing-file message
MSG_UNSUPPORTED == <<"unsupported-file-type">>   \* app.py:62
MSG_LLM_FAILED == <<"llm-analysis-failed">>      \* app.py:68
MSG_SERVER_ERROR == <<"server-error: ">>         \* app.py:82

(***************************************************************************)
(* Inputs                                                                  *)
(***************************************************************************)
Bytes == {97, 195, 169}
Blobs == Seqs(Bytes, MaxBlobLen)

Chars(w) ==
    CASE w = "a.pdf" -> <<"a", ".", "p", "d", "f">>
      [] w = "a.PDF" -> <<"a", ".", "P", "D", "F">>
      [] w = "a.docx" -> <<"a", ".", "d", "o", "c", "x">>
      [] w = "a.jpg" -> <<"a", ".", "j", "p", "g">>
      [] w = "A.Jpg" -> <<"A", ".", "J", "p", "g">>
      [] w = "a.jpeg" -> <<"a", ".", "j", "p", "e", "g">>
      [] w = "a.png" -> <<"a", ".", "p", "n", "g">>
      [] w = "a.py" -> <<"a", ".", "p", "y">>
      [] w = "a.PY" -> <<"a", ".", "P", "Y">>
      [] w = "a.java" -> <<"a", ".", "j", "a", "v", "a">>
      [] w = "a.gif" -> <<"a", ".", "g", "i", "f">>
      [] w = "a.doc" -> <<"a", ".", "d", "o", "c">>
      [] w = "a.txt" -> <<"a", ".", "t", "x", "t">>
      [] w = "a.pdf.gif" -> <<"a", ".", "p", "d", "f", ".", "g", "i", "f">>
      [] w = "pdf" -> <<"p", "d", "f">>
      [] w = ".pdf" -> <<".", "p", "d", "f">>
      [] w = ".doc" -> <<".", "d", "o", "c">>
      [] w = ".docx" -> <<".", "d", "o", "c", "x">>
      [] w = ".txt" -> <<".", "t", "x", "t">>
      [] w = ".py" -> <<".", "p", "y">>
      [] w = ".java" -> <<".", "j", "a", "v", "a">>
      [] w = ".jpg" -> <<".", "j", "p", "g">>
      [] w = ".jpeg" -> <<".", "j", "p", "e", "g">>
      [] w = ".png" -> <<".", "p", "n", "g">>
      [] w = "docx" -> <<"d", "o", "c", "x">>
      [] w = "doc" -> <<"d", "o", "c">>
      [] w = "txt" -> <<"t", "x", "t">>
      [] w = "py" -> <<"p", "y">>
      [] w = "gif" -> <<"g", "i", "f">>
      [] OTHER -> <<>>

Filenames ==
    {Chars(w) : w \in {"a.pdf", "a.PDF", "a.docx", "a.jpg", "A.Jpg", "a.jpeg", "a.png", "a.py",
                       "a.PY", "a.java", "a.gif", "a.doc", "a.txt", "a.pdf.gif", "pdf"}}

Questions == {<<"What does this do?">>, <<" ">>}

Requests ==
    {[question |-> q, file |-> f] :
        q \in Questions,
        f \in {NoFile} \cup {[t |-> "file", filename |-> n, bytes |-> b] : n \in Filenames, b \in Blobs}}

REPLACEMENT_MARKER == "U+FFFD"

\* bytes.decode("utf-8", errors="replace") over Bytes: what decode would give
\* with a replacement marker for every byte that does not decode
RECURSIVE decode_utf8_replace(_)
decode_utf8_replace(b) ==
    IF b = <<>> THEN <<>>
    ELSE IF b[1] < 128 THEN <<"a">> \o decode_utf8_replace(Tail(b))
    ELSE IF b[1] = 195 /\ Len(b) >= 2 /\ b[2] \in 128..191
         THEN <<"U+00E9">> \o decode_utf8_replace(SubSeq(b, 3, Len(b)))
    ELSE <<REPLACEMENT_MARKER>> \o decode_utf8_replace(Tail(b))

\* bytes.decode("utf-8", errors="ignore") over Bytes: 97 is "a", 195 169 is
\* "U+00E9" (a two-byte sequence); a lead byte without its continuation and a
\* continuation byte without its lead are dropped
RECURSIVE decode_utf8_ignore(_)
decode_utf8_ignore(b) ==
    IF b = <<>> THEN <<>>
    ELSE IF b[1] < 128 THEN <<"a">> \o decode_utf8_ignore(Tail(b))
    ELSE IF b[1] = 195 /\ Len(b) >= 2 /\ b[2] \in 128..191
         THEN <<"U+00E9">> \o decode_utf8_ignore(SubSeq(b, 3, Len(b)))
    ELSE decode_utf8_ignore(Tail(b))

(***************************************************************************)
(* read_image (document_parser.py)                                         *)
(***************************************************************************)
SENTINEL_DECODE_FAILED == <<"[image decode failed]">>
SENTINEL_NO_TEXT == <<"[no text recognized]">>
OcrErrorSentinel(e) == <<"[OCR error: ">> \o str_exc(e) \o <<"]">>

CV2_EMPTY_BUFFER == Exc("cv2.error", <<"!buf.empty()">>)
TESSERACT_ERROR == Exc("TesseractNotFoundError", <<"tesseract is not installed">>)

OcrTexts == Seqs({"a", " ", "\n"}, MaxOcrLen)

RECURSIVE splitlines(_)
splitlines(s) ==
    IF s = <<>> THEN <<>>
    ELSE IF \E i \in 1..Len(s) : s[i] = "\n"
         THEN LET i == CHOOSE i \in 1..Len(s) : s[i] = "\n" /\ \A j \in 1..(i - 1) : s[j] # "\n"
              IN <<SubSeq(s, 1, i - 1)>> \o splitlines(SubSeq(s, i + 1, Len(s)))
         ELSE <<s>>

NonBlank(line) == strip(line) # <<>>

\* "\n".join([line.strip() for line in text.splitlines() if line.strip()])
clean_ocr_text(text) ==
    LET kept == SelectSeq(splitlines(text), NonBlank)
    IN join(<<"\n">>, [i \in 1..Len(kept) |-> strip(kept[i])])

ImageCall(b) == [pc |-> "start", file_content |-> b, image |-> "unset", exc |-> NoException, ret |-> None]

\* read_image without its except clause: the exception leaves the function
read_image_reraise(f, e) == [f EXCEPT !.pc = "raised", !.exc = e]

\* lines 68-70: except Exception returns the error sentinel
read_image_except(f, e) == [f EXCEPT !.pc = "returned", !.exc = e, !.ret = JText(OcrErrorSentinel(e))]

\* lines 41-49: frombuffer + imdecode.  imdecode raises on an empty buffer,
\* returns None for bytes it cannot decode, and otherwise an image.
ri_imdecode ==
    /\ ri.pc = "start"
    /\ IF ri.file_content = <<>>
       THEN ri' = read_image_except([ri EXCEPT !.image = "raised"], CV2_EMPTY_BUFFER)
       ELSE \E decoded \in BOOLEAN :
              ri' = IF decoded
                    THEN [ri EXCEPT !.pc = "decoded", !.image = "image"]
                    ELSE [ri EXCEPT !.pc = "returned", !.image = "None", !.ret = JText(SENTINEL_DECODE_FAILED)]
    /\ calls' = [calls EXCEPT !.read_image = @ + 1]
    /\ UNCHANGED <<handler, rd, ac, tempfiles>>

\* lines 51-70: grayscale, threshold, recognition, cleanup; any exception
\* becomes the error sentinel
ri_recognize ==
    /\ ri.pc = "decoded"
    /\ \/ ri' = read_image_except(ri, TESSERACT_ERROR)
       \/ \E text \in OcrTexts :
            LET clean_text == clean_ocr_text(text)
            IN ri' = [ri EXCEPT !.pc = "returned",
                                !.ret = JText(IF clean_text = <<>> THEN SENTINEL_NO_TEXT ELSE clean_text)]
    /\ UNCHANGED <<handler, rd, ac, tempfiles, calls>>

(***************************************************************************)
(* read_document (document_parser.py)                                      *)
(***************************************************************************)
TEMP_PREFIX == <<"/", "tmp", "/", "tmpf">>
FileTypes == {None} \cup {JText(Chars(w)) : w \in {"pdf", "docx", "doc", "txt", "py", "gif"}}
Paths == {Chars(w) : w \in {"a.py", "a.pdf", "a.jpg", "pdf"}}

OSERROR_MKTEMP == Exc("OSError", <<"cannot create temporary file">>)
OSERROR_WRITE == Exc("OSError", <<"No space left on device">>)
LOADER_INIT_ERROR == Exc("ValueError", <<"File path is not a valid file or url">>)
LOAD_ERROR == Exc("LoaderError", <<"cannot read document">>)
SPLIT_ERROR == Exc("SplitterError", <<"cannot split document">>)
UNBOUND_LOCAL_ERROR == Exc("UnboundLocalError", <<"local variable 'file_path' referenced before assignment">>)
UnsupportedKind(ext) == Exc("ValueError", <<"unsupported-file-type: ">> \o ext)

\* page texts a loader may hand back
DocPages == {<<>>, <<<<"a">>>>, <<<<"a", " ">>, <<"b">>>>, <<<<" ">>>>}

\* RecursiveCharacterTextSplitter(chunk_size=1000, chunk_overlap=200) on pages
\* shorter than a chunk: one stripped chunk per page, blank pages dropped
split_documents(docs) ==
    LET kept == SelectSeq(docs, NonBlank)
    IN [i \in 1..Len(kept) |-> strip(kept[i])]

DocumentCall(kind, input, file_type) ==
    [pc |-> "start", kind |-> kind, file_input |-> input, file_type |-> file_type,
     temp_file |-> Unbound, file_path |-> Unbound, loader |-> "none", docs |-> <<>>, exc |-> NoException, ret |-> None]

LoaderFor(ext) ==
    IF ext = Chars(".pdf") THEN "PyPDFLoader"
    ELSE IF ext \in {Chars(".doc"), Chars(".docx")} THEN "Docx2txtLoader"
    ELSE IF ext \in {Chars(".txt"), Chars(".py"), Chars(".java")} THEN "TextLoader"
    ELSE "none"

\* lines 85-86: a path is used as it is
rd_use_path ==
    /\ rd.pc = "start"
    /\ rd.kind = "str"
    /\ rd' = [rd EXCEPT !.pc = "choose", !.file_path = JText(rd.file_input)]
    /\ calls' = [calls EXCEPT !.read_document = @ + 1]
    /\ UNCHANGED <<handler, ri, ac, tempfiles>>

\* lines 89-90: NamedTemporaryFile(delete=False, suffix=suffix)
rd_mktemp ==
    /\ rd.pc = "start"
    /\ rd.kind = "bytes"
    /\ LET suffix == IF rd.file_type.t = "None" \/ rd.file_type.s = <<>> THEN <<>>
                     ELSE <<".">> \o rd.file_type.s
           name == TEMP_PREFIX \o suffix
       IN \/ /\ rd' = [rd EXCEPT !.pc = "finally", !.exc = OSERROR_MKTEMP]
             /\ UNCHANGED tempfiles
          \/ /\ rd' = [rd EXCEPT !.pc = "write", !.temp_file = JText(name)]
             /\ tempfiles' = tempfiles \cup {name}
    /\ calls' = [calls EXCEPT !.read_document = @ + 1]
    /\ UNCHANGED <<handler, ri, ac>>

\* lines 91-93: write, flush, then file_path = temp_file.name
rd_write ==
    /\ rd.pc = "write"
    /\ \/ rd' = [rd EXCEPT !.pc = "finally", !.exc = OSERROR_WRITE]
       \/ rd' = [rd EXCEPT !.pc = "choose", !.file_path = rd.temp_file]
    /\ UNCHANGED <<handler, ri, ac, tempfiles, calls>>

\* lines 95-104: the loader is chosen by the path's extension
rd_choose_loader ==
    /\ rd.pc = "choose"
    /\ LET ext == lower(splitext_ext(rd.file_path.s))
       IN IF LoaderFor(ext) = "none"
          THEN rd' = [rd EXCEPT !.pc = "finally", !.exc = UnsupportedKind(ext)]
          ELSE \/ rd' = [rd EXCEPT !.pc = "load", !.loader = LoaderFor(ext)]
               \/ rd' = [rd EXCEPT !.pc = "finally", !.exc = LOADER_INIT_ERROR]
    /\ UNCHANGED <<handler, ri, ac, tempfiles, calls>>

\* line 106: loader.load()
rd_load ==
    /\ rd.pc = "load"
    /\ \/ rd' = [rd EXCEPT !.pc = "finally", !.exc = LOAD_ERROR]
       \/ \E docs \in DocPages : rd' = [rd EXCEPT !.pc = "split", !.docs = docs]
    /\ UNCHANGED <<handler, ri, ac, tempfiles, calls>>

\* lines 107-110: split, join with newlines
rd_split ==
    /\ rd.pc = "split"
    /\ \/ rd' = [rd EXCEPT !.pc = "finally", !.exc = SPLIT_ERROR]
       \/ rd' = [rd EXCEPT !.pc = "finally", !.ret = JText(join(<<"\n">>, split_documents(rd.docs)))]
    /\ UNCHANGED <<handler, ri, ac, tempfiles, calls>>

\* lines 112-115: the finally block.  With a byte input it reads file_path,
\* which is unbound when the call failed before line 93.
rd_finally ==
    /\ rd.pc = "finally"
    /\ IF rd.kind = "str"
       THEN /\ rd' = [rd EXCEPT !.pc = IF rd.exc.type = "none" THEN "returned" ELSE "raised"]
            /\ UNCHANGED tempfiles
       ELSE IF rd.file_path.t = "unbound"
       THEN /\ rd' = [rd EXCEPT !.pc = "raised", !.exc = UNBOUND_LOCAL_ERROR]
            /\ UNCHANGED tempfiles
       ELSE /\ tempfiles' = tempfiles \ {rd.file_path.s}
            /\ rd' = [rd EXCEPT !.pc = IF rd.exc.type = "none" THEN "returned" ELSE "raised"]
    /\ UNCHANGED <<handler, ri, ac, calls>>

(***************************************************************************)
(* analyze_content (llm_analyzer.py)                                       *)
(***************************************************************************)
Payload(w) ==
    CASE w = "full" -> <<"{", "logical_analysis", ":", "x", ",", "correctness_evaluation", ":", "y", ",",
                         "overall_score", ":", "8", ",", "suggestions", ":", "z", "}">>
      [] w = "score" -> <<"{", "overall_score", ":", "7", "}">>
      [] w = "not json" -> <<"not", " ", "json">>
      [] w = "fenced" -> <<"fence", "{", "overall_score", ":", "7", "}", "fence">>
      [] w = "truncated" -> <<"{", "overall_score", ":", "7">>
      [] w = "extra" -> <<"{", "overall_score", ":", "7", "}", "}">>
      [] w = "trailing comma" -> <<"[", "7", ",", "]">>
      [] w = "NaN" -> <<"NaN">>
      [] w = "score NaN" -> <<"{", "overall_score", ":", "NaN", "}">>
      [] w = "score 1e999" -> <<"{", "overall_score", ":", "1e999", "}">>
      [] w = "array" -> <<"[", "7", ",", "8", "]">>
      [] w = "number" -> <<"7">>
      [] w = "string" -> <<"x">>
      [] w = "duplicate key" -> <<"{", "overall_score", ":", "7", ",", "overall_score", ":", "8", "}">>
      [] w = "empty object" -> <<"{", "}">>
      [] w = "raw_output key" -> <<"{", "raw_output", ":", "x", "}">>
      [] w = "nested" -> <<"{", "suggestions", ":", "[", "x", ",", "{", "overall_score", ":", "7", "}", "]", "}">>
      [] OTHER -> <<>>

Payloads ==
    {Payload(w) : w \in {"full", "score", "not json", "fenced", "truncated", "extra", "trailing comma",
                         "NaN", "score NaN", "score 1e999", "array", "number", "string",
                         "duplicate key", "empty object", "raw_output key", "nested", "empty"}}

AIMessage(p) == [t |-> "AIMessage", content |-> p]

\* what chain.invoke may hand back: a message, or an object without a content attribute
Replies == {AIMessage(p) : p \in Payloads} \cup {None, JText(<<>>), JText(<<"raw">>)}

\* Python truthiness of a reply
Truthy(r) == r.t = "AIMessage" \/ (r.t = "text" /\ r.s # <<>>)

hasattr_content(r) == r.t = "AIMessage"

\* str(result) for a reply without content
str_reply(r) == IF r.t = "text" THEN r.s ELSE <<"None">>

BUILD_ERROR == Exc("OpenAIError", <<"cannot create client">>)
INVOKE_ERROR == Exc("APITimeoutError", <<"Request timed out.">>)

DirectContents == {<<>>, <<" ">>, <<"\n", " ">>, <<"a">>, <<" ", "a", "\n">>}

AnalyzeCall(c) ==
    [pc |-> "start", content |-> c, reply |-> Unbound, result |-> None, debug |-> "none",
     exc |-> NoException, ret |-> None]

\* the emptiness test without the strip
is_empty_content_nostrip(c) == c = <<>>

\* line 123
is_empty_content(c) == c = <<>> \/ Len(strip(c)) = 0

\* analyze_content without its except clause
analyze_content_reraise(f, e) == [f EXCEPT !.pc = "raised", !.exc = e]

\* lines 180-183: except Exception logs and returns None
analyze_content_except(f, e) == [f EXCEPT !.pc = "returned", !.exc = e, !.ret = None]

\* line 178
analyze_content_return(f) == [f EXCEPT !.pc = "returned", !.ret = f.result]

\* lines 112-125: empty or whitespace-only content returns None at once
ac_check_content ==
    /\ ac.pc = "start"
    /\ ac' = IF is_empty_content(ac.content)
             THEN [ac EXCEPT !.pc = "returned", !.ret = None]
             ELSE [ac EXCEPT !.pc = "build"]
    /\ calls' = [calls EXCEPT !.analyze_content = @ + 1]
    /\ UNCHANGED <<handler, ri, rd, tempfiles>>

\* lines 127-132 and 180-183: build_analysis_chain(); its exceptions end the call with None
ac_build_chain ==
    /\ ac.pc = "build"
    /\ \/ ac' = [ac EXCEPT !.pc = "invoke"]
       \/ ac' = analyze_content_except(ac, BUILD_ERROR)
    /\ calls' = [calls EXCEPT !.build = @ + 1]
    /\ UNCHANGED <<handler, ri, rd, tempfiles>>

\* lines 141-148 and 180-183: chain.invoke; an exception or a falsy reply gives None
ac_invoke ==
    /\ ac.pc = "invoke"
    /\ \/ ac' = analyze_content_except(ac, INVOKE_ERROR)
       \/ \E r \in Replies :
            ac' = IF Truthy(r)
                  THEN [ac EXCEPT !.pc = "debug", !.reply = r, !.result = r]
                  ELSE [ac EXCEPT !.pc = "returned", !.reply = r, !.result = r, !.ret = None]
    /\ calls' = [calls EXCEPT !.invoke = @ + 1]
    /\ UNCHANGED <<handler, ri, rd, tempfiles>>

\* lines 155-173: what the logging block finds in the reply; its own
\* exceptions are swallowed there
DebugOutcome(r) ==
    IF ~hasattr_content(r) THEN "no content"
    ELSE IF strip(r.content) # <<>> /\ Head(strip(r.content)) = "{"
         THEN IF json_loads(r.content).ok THEN "json" ELSE "JSONDecodeError"
         ELSE "not json"

\* lines 150-178: log, then return the reply itself
ac_return_result ==
    /\ ac.pc = "debug"
    /\ ac' = analyze_content_return([ac EXCEPT !.debug = DebugOutcome(ac.result)])
    /\ UNCHANGED <<handler, ri, rd, tempfiles, calls>>

(***************************************************************************)
(* analyze_api (app.py)                                                    *)
(***************************************************************************)
IMAGE_SUFFIXES == {Chars(".jpg"), Chars(".jpeg"), Chars(".png")}
DOCUMENT_SUFFIXES == {Chars(".docx"), Chars(".pdf")}
CODE_SUFFIXES == {Chars(".py"), Chars(".java")}

NoRequest == [question |-> <<>>, file |-> NoFile]

\* lines 80-82: except Exception also catches the HTTPExceptions raised in
\* the try block (HTTPException is a subclass of Exception) and raises a new
\* one with status 500
\* variant of the handler that answers with a fixed detail
except_Exception_generic(e) == ErrorResponse(HTTPException(500, MSG_SERVER_ERROR))

except_Exception(e) == ErrorResponse(HTTPException(500, MSG_SERVER_ERROR \o str_exc(e)))

\* lines 47-52: the file must be there; read it and lower-case its name
ha_validate ==
    /\ pc = "received"
    /\ IF request.file.t = "nofile"
       THEN /\ response' = except_Exception(HTTPException(400, MSG_MISSING_FILE))
            /\ caught' = HTTPException(400, MSG_MISSING_FILE)
            /\ pc' = "error"
       ELSE /\ pc' = "validated"
            /\ UNCHANGED <<response, caught>>
    /\ UNCHANGED <<request, text_content, content, result, json_result, ri, rd, ac, tempfiles, calls>>

\* lines 54-62: dispatch on the suffix of the lower-cased name
ha_dispatch ==
    /\ pc = "validated"
    /\ LET file_content == request.file.bytes
           filename == lower(request.file.filename)
       IN IF endswith_any(filename, IMAGE_SUFFIXES)
          THEN /\ ri' = ImageCall(file_content)
               /\ pc' = "extracting"
               /\ UNCHANGED <<text_content, response, caught, rd, calls>>
          ELSE IF endswith_any(filename, DOCUMENT_SUFFIXES)
          THEN /\ rd' = DocumentCall("bytes", file_content, JText(split_last(filename)))
               /\ pc' = "extracting"
               /\ UNCHANGED <<text_content, response, caught, ri, calls>>
          ELSE IF endswith_any(filename, CODE_SUFFIXES)
          THEN /\ text_content' = JText(decode_utf8_ignore(file_content))
               /\ calls' = [calls EXCEPT !.decode = @ + 1]
               /\ pc' = "extracted"
               /\ UNCHANGED <<response, caught, ri, rd>>
          ELSE /\ response' = except_Exception(HTTPException(400, MSG_UNSUPPORTED))
               /\ caught' = HTTPException(400, MSG_UNSUPPORTED)
               /\ pc' = "error"
               /\ UNCHANGED <<text_content, ri, rd, calls>>
    /\ UNCHANGED <<request, content, result, json_result, ac, tempfiles>>

\* lines 56, 58: the extractor hands back its text, or its exception reaches line 80
ha_extract_return ==
    /\ pc = "extracting"
    /\ \/ /\ ri.pc = "returned"
          /\ text_content' = ri.ret
          /\ ri' = Idle
          /\ pc' = "extracted"
          /\ UNCHANGED <<response, caught, rd>>
       \/ /\ rd.pc = "returned"
          /\ text_content' = rd.ret
          /\ rd' = Idle
          /\ pc' = "extracted"
          /\ UNCHANGED <<response, caught, ri>>
       \/ /\ rd.pc = "raised"
          /\ response' = except_Exception(rd.exc)
          /\ caught' = rd.exc
          /\ rd' = Idle
          /\ pc' = "error"
          /\ UNCHANGED <<text_content, ri>>
    /\ UNCHANGED <<request, content, result, json_result, ac, tempfiles, calls>>

LABEL_QUESTION == <<"question-label:">>                      \* app.py:64
LABEL_FILE_CONTENT == <<"\n", "\n", "file-content-label:", "\n">>   \* app.py:64

\* variant that joins the question and the text without the labels
ha_build_content_unlabelled ==
    /\ pc = "extracted"
    /\ content' = request.question \o text_content.s
    /\ pc' = "prompted"
    /\ UNCHANGED <<request, text_content, result, json_result, response, caught, ri, rd, ac, tempfiles, calls>>

\* line 64
ha_build_content ==
    /\ pc = "extracted"
    /\ content' = LABEL_QUESTION \o request.question \o LABEL_FILE_CONTENT \o text_content.s
    /\ pc' = "prompted"
    /\ UNCHANGED <<request, text_content, result, json_result, response, caught, ri, rd, ac, tempfiles, calls>>

\* line 65: the call
ha_call_analyze ==
    /\ pc = "prompted"
    /\ ac' = AnalyzeCall(content)
    /\ pc' = "analyzing"
    /\ UNCHANGED <<request, text_content, content, result, json_result, response, caught, ri, rd, tempfiles, calls>>

\* variant that goes on only when analyze_content handed back a result
ha_analyze_return_await_result ==
    /\ pc = "analyzing"
    /\ ac.pc = "returned"
    /\ ac.ret.t # "None"
    /\ result' = ac.ret
    /\ ac' = Idle
    /\ pc' = "analyzed"
    /\ UNCHANGED <<request, text_content, content, json_result, response, caught, ri, rd, tempfiles, calls>>

\* line 65: the return
ha_analyze_return ==
    /\ pc = "analyzing"
    /\ ac.pc = "returned"
    /\ result' = ac.ret
    /\ ac' = Idle
    /\ pc' = "analyzed"
    /\ UNCHANGED <<request, text_content, content, json_result, response, caught, ri, rd, tempfiles, calls>>

\* variant that sends the content to analyze_content again when no result came back
ha_interpret_retry ==
    /\ pc = "analyzed"
    /\ IF ~Truthy(result)
       THEN /\ pc' = "prompted"
            /\ UNCHANGED <<json_result, response, caught>>
       ELSE /\ json_result' = IF hasattr_content(result) THEN json_loads(result.content) ELSE ParseFail
            /\ pc' = "interpreted"
            /\ UNCHANGED <<response, caught>>
    /\ UNCHANGED <<request, text_content, content, result, ri, rd, ac, tempfiles, calls>>

\* lines 67-73: no result is an HTTPException(500); a reply with content is parsed
ha_interpret ==
    /\ pc = "analyzed"
    /\ IF ~Truthy(result)
       THEN /\ response' = except_Exception(HTTPException(500, MSG_LLM_FAILED))
            /\ caught' = HTTPException(500, MSG_LLM_FAILED)
            /\ pc' = "error"
            /\ UNCHANGED json_result
       ELSE /\ json_result' = IF hasattr_content(result) THEN json_loads(result.content) ELSE ParseFail
            /\ pc' = "interpreted"
            /\ UNCHANGED <<response, caught>>
    /\ UNCHANGED <<request, text_content, content, result, ri, rd, ac, tempfiles, calls>>

RawOutput(r) == JObj("raw_output" :> JText(r.content))
ResultString(r) == JObj("result" :> JText(str_reply(r)))

FOUR_FIELDS == {"logical_analysis", "correctness_evaluation", "overall_score", "suggestions"}

\* respond without the inner try/except: a payload that does not parse reaches line 80
respond_unguarded(r, parsed) ==
    IF hasattr_content(r)
    THEN IF parsed.ok /\ ~JSONResponse(parsed.val).raised
         THEN JSONResponse(parsed.val).resp
         ELSE except_Exception(Exc("JSONDecodeError", <<"Expecting value">>))
    ELSE JSONResponse(ResultString(r)).resp

\* respond with a schema check: a parsed value without the four fields is downgraded
respond_validated(r, parsed) ==
    IF hasattr_content(r)
    THEN IF parsed.ok /\ ~JSONResponse(parsed.val).raised
            /\ parsed.val.t = "obj" /\ DOMAIN parsed.val.o = FOUR_FIELDS
         THEN JSONResponse(parsed.val).resp
         ELSE JSONResponse(RawOutput(r)).resp
    ELSE JSONResponse(ResultString(r)).resp

\* respond that keeps the raw text next to the parsed fields
respond_mixed(r, parsed) ==
    IF hasattr_content(r)
    THEN IF parsed.ok /\ ~JSONResponse(parsed.val).raised /\ parsed.val.t = "obj"
         THEN JSONResponse(JObj(("raw_output" :> JText(r.content)) @@ parsed.val.o)).resp
         ELSE JSONResponse(RawOutput(r)).resp
    ELSE JSONResponse(ResultString(r)).resp

\* lines 74-78: the parsed value if it was parsed and can be rendered, else
\* the raw_output envelope; a reply without content is printed
respond(r, parsed) ==
    IF hasattr_content(r)
    THEN IF parsed.ok /\ ~JSONResponse(parsed.val).raised
         THEN JSONResponse(parsed.val).resp
         ELSE JSONResponse(RawOutput(r)).resp
    ELSE JSONResponse(ResultString(r)).resp

ha_respond ==
    /\ pc = "interpreted"
    /\ response' = respond(result, json_result)
    /\ pc' = "responded"
    /\ UNCHANGED <<request, text_content, content, result, json_result, caught, ri, rd, ac, tempfiles, calls>>

(***************************************************************************)
(* Specification: one request to POST /analyze, or one direct call of      *)
(* read_image, read_document or analyze_content                            *)
(***************************************************************************)
NoCalls == [read_image |-> 0, read_document |-> 0, decode |-> 0, analyze_content |-> 0, build |-> 0, invoke |-> 0]

InitCommon ==
    /\ text_content = None
    /\ content = <<>>
    /\ result = None
    /\ json_result = ParseFail
    /\ response = None
    /\ caught = NoException
    /\ tempfiles = {}
    /\ calls = NoCalls

InitRequest ==
    /\ request \in Requests
    /\ pc = "received"
    /\ ri = Idle /\ rd = Idle /\ ac = Idle

InitImage ==
    /\ request = NoRequest
    /\ pc = "direct"
    /\ ri \in {ImageCall(b) : b \in Blobs}
    /\ rd = Idle /\ ac = Idle

InitDocument ==
    /\ request = NoRequest
    /\ pc = "direct"
    /\ rd \in {DocumentCall("bytes", b, ft) : b \in Blobs, ft \in FileTypes}
              \cup {DocumentCall("str", p, None) : p \in Paths}
    /\ ri = Idle /\ ac = Idle

InitAnalyze ==
    /\ request = NoRequest
    /\ pc = "direct"
    /\ ac \in {AnalyzeCall(c) : c \in DirectContents}
    /\ ri = Idle /\ rd = Idle

Init == InitCommon /\ (InitRequest \/ InitImage \/ InitDocument \/ InitAnalyze)

Next ==
    \/ ha_validate
    \/ ha_dispatch
    \/ ha_extract_return
    \/ ha_build_content
    \/ ha_call_analyze
    \/ ha_analyze_return
    \/ ha_interpret
    \/ ha_respond
    \/ ri_imdecode
    \/ ri_recognize
    \/ rd_use_path
    \/ rd_mktemp
    \/ rd_write
    \/ rd_choose_loader
    \/ rd_load
    \/ rd_split
    \/ rd_finally
    \/ ac_check_content
    \/ ac_build_chain
    \/ ac_invoke
    \/ ac_return_result

Spec == Init /\ [][Next]_vars

\* the steps of the handler's own code
HandlerStep ==
    \/ ha_validate \/ ha_dispatch \/ ha_extract_return \/ ha_build_content
    \/ ha_call_analyze \/ ha_analyze_return \/ ha_interpret \/ ha_respond

\* the steps inside read_image and read_document
ExtractionStep ==
    \/ ri_imdecode \/ ri_recognize
    \/ rd_use_path \/ rd_mktemp \/ rd_write \/ rd_choose_loader \/ rd_load \/ rd_split \/ rd_finally

\* the steps inside analyze_content, the remote call among them
AnalyzeStep == ac_check_content \/ ac_build_chain \/ ac_invoke \/ ac_return_result

\* The handler is a coroutine the server runs to its end, and every call it
\* makes is synchronous: the library calls of the extractors return or raise,
\* and the remote call ends at the latest with its timeout (llm_analyzer.py
\* builds the client with a timeout and retry limit).
\* Termination does not depend on the bytes or on the wording of the
\* question: one request per branch of lines 48-62 (no file, an image, a
\* document, source code, an unsupported name), and read_document by path.
FairFilenames == {Chars(w) : w \in {"a.pdf", "A.Jpg", "a.py", "a.gif"}}

FairRequests ==
    {r \in Requests :
        /\ r.question # <<" ">>
        /\ r.file.t = "file" => (r.file.filename \in FairFilenames /\ Len(r.file.bytes) <= 1)}

FairInit ==
    /\ InitCommon
    /\ \/ InitRequest /\ request \in FairRequests
       \/ InitDocument /\ rd.kind = "str"

FairSpec ==
    /\ FairInit
    /\ [][Next]_vars
    /\ WF_vars(HandlerStep)
    /\ WF_vars(ExtractionStep)
    /\ WF_vars(AnalyzeStep)

(***************************************************************************)
(* Properties                                                              *)
(***************************************************************************)
Terminal == pc \in {"responded", "error"}
NoExtraction == calls.read_image = 0 /\ calls.read_document = 0 /\ calls.decode = 0
NoRemoteCall == calls.analyze_content = 0 /\ calls.build = 0 /\ calls.invoke = 0
IsBlank(c) == \A i \in 1..Len(c) : c[i] \in Whitespace

RecognizedSuffixes ==
    {Chars(w) : w \in {".pdf", ".docx", ".jpg", ".jpeg", ".png", ".py", ".java"}}

Unrecognized(name) == \A suf \in RecognizedSuffixes : ~endswith(lower(name), suf)

\* C1: a request without a file is answered with status 400 and the
\* missing-file message, and nothing is extracted or sent to the remote service.
C1_MissingFileIs400 ==
    (Terminal /\ request.file.t = "nofile")
        => /\ response.status = 400
           /\ response.detail = MSG_MISSING_FILE
           /\ NoExtraction
           /\ NoRemoteCall

\* C2: a request whose file name has none of the recognized suffixes is
\* answered with status 400 (unsupported type), and nothing is extracted or
\* sent to the remote service.
C2_UnsupportedTypeIs400 ==
    (Terminal /\ request.file.t = "file" /\ Unrecognized(request.file.filename))
        => /\ response.status = 400
           /\ response.detail = MSG_UNSUPPORTED
           /\ NoExtraction
           /\ NoRemoteCall

\* C3: a reply whose textual payload is not valid JSON is answered with
\* status 200 and the body {"raw_output": payload}, never with an error.
C3_MalformedReplyIsRawOutput ==
    (Terminal /\ hasattr_content(result) /\ ~IsValidJSON(result.content))
        => /\ pc = "responded"
           /\ response.status = 200
           /\ response.body.t = "obj"
           /\ DOMAIN response.body.o = {"raw_output"}
           /\ response.body.o["raw_output"] = JText(result.content)

C3_Witness ==
    /\ pc = "responded"
    /\ hasattr_content(result)
    /\ result.content = Payload("truncated")
    /\ response.status = 200
    /\ DOMAIN response.body.o = {"raw_output"}

\* C4 as stated: every well-formed JSON payload is answered with status 200
\* and the parsed value, unchanged.
C4_WellFormedIsPassedThrough ==
    (Terminal /\ hasattr_content(result) /\ IsValidJSON(result.content))
        => /\ pc = "responded"
           /\ response.status = 200
           /\ response.body = ParseDocument(result.content, {}).val

SPEC_EXAMPLE ==
    JObj([k \in FOUR_FIELDS |->
            CASE k = "logical_analysis" -> JStr(<<"x">>)
              [] k = "correctness_evaluation" -> JStr(<<"y">>)
              [] k = "overall_score" -> JInt(8)
              [] k = "suggestions" -> JStr(<<"z">>)])

\* C4 amended: a well-formed JSON payload whose decoded value can be
\* rendered again (no number beyond the range of a double, which decodes to
\* infinity) is answered with status 200 and the parsed value, unchanged and
\* unvalidated; a well-formed payload with such a number gets the raw_output
\* envelope.
C4_FinitePayloadIsPassedThrough ==
    (Terminal /\ hasattr_content(result) /\ IsValidJSON(result.content))
        => /\ pc = "responded"
           /\ response.status = 200
           /\ IF Finite(ParseDocument(result.content, {}).val)
              THEN response.body = ParseDocument(result.content, {}).val
              ELSE response.body = JObj("raw_output" :> JText(result.content))
           /\ result.content = Payload("full") => response.body = SPEC_EXAMPLE
           /\ result.content = Payload("score") => response.body = JObj("overall_score" :> JInt(7))

C4_Witness ==
    /\ pc = "responded"
    /\ hasattr_content(result)
    /\ result.content = Payload("score")
    /\ response.body = JObj("overall_score" :> JInt(7))

RECURSIVE PureJSON(_)
PureJSON(v) ==
    CASE v.t \in {"int", "str"} -> TRUE
      [] v.t = "arr" -> \A i \in 1..Len(v.a) : PureJSON(v.a[i])
      [] v.t = "obj" -> \A k \in DOMAIN v.o : PureJSON(v.o[k])
      [] OTHER -> FALSE

IsEnvelope(b, key) == b.t = "obj" /\ DOMAIN b.o = {key} /\ b.o[key].t = "text"
HasFourFields(b) == b.t = "obj" /\ FOUR_FIELDS \subseteq DOMAIN b.o

\* C5 as stated: a 200 body is either a mapping with the four fields or the
\* raw_output envelope, and nothing else.
C5_TwoShapesOnly ==
    pc = "responded"
        => /\ response.status = 200
           /\ HasFourFields(response.body) \/ IsEnvelope(response.body, "raw_output")
           /\ ~(HasFourFields(response.body) /\ IsEnvelope(response.body, "raw_output"))

\* C5 amended: a 200 body is made by exactly one of three rules, chosen by
\* the reply: the parsed JSON value of the payload as it is, whatever its
\* fields, when the payload decodes and renders; the envelope
\* {raw_output: payload} for any other payload; the envelope {result: text}
\* for a reply without a textual payload.
C5_ThreeShapes ==
    pc = "responded"
        => LET b == response.body
               decoded == json_loads(result.content)
           IN /\ response.status = 200
              /\ \/ /\ hasattr_content(result)
                    /\ decoded.ok /\ Finite(decoded.val)
                    /\ PureJSON(b)
                    /\ b = decoded.val
                 \/ /\ hasattr_content(result)
                    /\ ~(decoded.ok /\ Finite(decoded.val))
                    /\ IsEnvelope(b, "raw_output")
                    /\ b.o["raw_output"].s = result.content
                 \/ /\ ~hasattr_content(result)
                    /\ IsEnvelope(b, "result")
                    /\ b.o["result"].s = result.s

C5_Witness ==
    /\ pc = "responded"
    /\ hasattr_content(result)
    /\ result.content = Payload("array")
    /\ PureJSON(response.body)
    /\ ~HasFourFields(response.body)

\* C6: when the analysis client returns None the answer has status 500, its
\* detail is the fixed analysis-unavailable message, and there is no result body.
C6_AnalysisUnavailableIs500 ==
    (Terminal /\ calls.analyze_content = 1 /\ result.t = "None")
        => /\ pc = "error"
           /\ response.status = 500
           /\ response.detail = MSG_LLM_FAILED
           /\ response.body.t = "None"

\* C7: once read_document has returned or raised on a byte blob, and so once
\* the handler has answered, no temporary file of the call exists.
C7_NoTempFileLeft ==
    /\ (rd.pc \in {"returned", "raised"} /\ rd.kind = "bytes") => tempfiles = {}
    /\ Terminal => tempfiles = {}

\* C8 as stated: read_image never raises and returns a string, and on every
\* blob that does not decode to an image the string is the decode-failure sentinel.
C8_UndecodableIsDecodeSentinel ==
    /\ ri.pc # "raised"
    /\ ri.pc = "returned" =>
          /\ ri.ret.t = "text"
          /\ ri.image # "image" => ri.ret.s = SENTINEL_DECODE_FAILED

\* C8 amended: read_image never raises and returns a string; when the decoder
\* returns no image the string is the decode-failure sentinel, and when the
\* decoder itself raises (an empty blob) it is the error sentinel with the message.
C8_NeverRaises ==
    /\ ri.pc # "raised"
    /\ ri.pc = "returned" =>
          /\ ri.ret.t = "text"
          /\ ri.image = "None" => ri.ret.s = SENTINEL_DECODE_FAILED
          /\ ri.image = "raised" => ri.ret.s = OcrErrorSentinel(CV2_EMPTY_BUFFER)
          /\ ri.exc.type # "none" => ri.ret.s = OcrErrorSentinel(ri.exc)

C8_Witness ==
    /\ ri.pc = "returned"
    /\ ri.file_content # <<>>
    /\ ri.image = "None"
    /\ ri.ret.s = SENTINEL_DECODE_FAILED

\* C9: analyze_content on an empty or whitespace-only string returns None
\* without building the chain or invoking the remote service.
C9_EmptyContentShortCircuit ==
    (ac.pc \in {"returned", "raised", "build", "invoke", "debug"} /\ IsBlank(ac.content))
        => /\ ac.pc = "returned"
           /\ ac.ret.t = "None"
           /\ calls.build = 0
           /\ calls.invoke = 0

C9_Witness ==
    /\ ac.pc = "returned"
    /\ ac.content = <<"\n", " ">>
    /\ ac.ret.t = "None"

SameReply(a, b) ==
    /\ a.t = b.t
    /\ a.t = "AIMessage" => a.content = b.content
    /\ a.t = "text" => a.s = b.s

ReplyIsEmpty(r) == r.t = "None" \/ (r.t = "text" /\ Len(r.s) = 0)

\* C10: on non-empty content analyze_content never raises; it returns None
\* when building or invoking raised or the reply was empty, and otherwise the
\* reply itself.
C10_NoneOrReply ==
    /\ ac.pc # "raised"
    /\ (ac.pc = "returned" /\ ~IsBlank(ac.content)) =>
          IF ac.exc.type # "none" \/ ac.reply.t = "unbound" \/ ReplyIsEmpty(ac.reply)
          THEN ac.ret.t = "None"
          ELSE SameReply(ac.ret, ac.reply)

C10_Witness ==
    /\ ac.pc = "returned"
    /\ ~IsBlank(ac.content)
    /\ ac.exc.type = "none"
    /\ ac.ret.t = "AIMessage"
    /\ ac.ret.content = Payload("full")

\* detail contains msg as a contiguous part
Embeds(detail, msg) ==
    \E i \in 0..(Len(detail) - Len(msg)) : SubSeq(detail, i + 1, i + Len(msg)) = msg

\* the exception came out of the extractor, not from a raise of the handler itself
RaisedByExtraction == caught.type \notin {"none", "HTTPException"}

\* C11: an exception raised by extraction or by a later step is answered
\* with status 500 whose detail embeds the exception's message and with no
\* result body; the extraction was entered once, the remote service is not
\* called, and nothing happens on the request afterwards.
C11_ExceptionIs500 ==
    pc = "error" =>
        /\ caught.type # "none"
        /\ caught.msg # <<>>
        /\ response.status = 500
        /\ Embeds(response.detail, str_exc(caught))
        /\ response.body.t = "None"
        /\ ri.pc = "idle" /\ rd.pc = "idle" /\ ac.pc = "idle"
        /\ ~ENABLED Next
        /\ RaisedByExtraction =>
              /\ calls.read_document = 1
              /\ NoRemoteCall

C11_Witness ==
    /\ pc = "error"
    /\ caught = LOAD_ERROR
    /\ response.status = 500
    /\ response.detail = MSG_SERVER_ERROR \o LOAD_ERROR.msg
    /\ calls.read_document = 1

\* letters of the model's filenames, each with its other case
CasePairs ==
    {{"a", "A"}, {"d", "D"}, {"f", "F"}, {"g", "G"}, {"i", "I"}, {"j", "J"}, {"p", "P"}, {"y", "Y"}}

EqualIgnoringCase(a, b) ==
    /\ Len(a) = Len(b)
    /\ \A i \in 1..Len(a) : a[i] = b[i] \/ {a[i], b[i]} \in CasePairs

HasSuffixIgnoringCase(name, sufs) ==
    \E suf \in sufs :
        /\ Len(name) >= Len(suf)
        /\ EqualIgnoringCase(SubSeq(name, Len(name) - Len(suf) + 1, Len(name)), suf)

\* the path the claim assigns to a filename
ExpectedPath(name) ==
    IF HasSuffixIgnoringCase(name, {Chars(".jpg"), Chars(".jpeg"), Chars(".png")}) THEN "ocr"
    ELSE IF HasSuffixIgnoringCase(name, {Chars(".pdf"), Chars(".docx")}) THEN "document"
    ELSE IF HasSuffixIgnoringCase(name, {Chars(".py"), Chars(".java")}) THEN "decode"
    ELSE "none"

\* the path the request has taken
PathTaken ==
    IF ri.pc # "idle" \/ calls.read_image > 0 THEN "ocr"
    ELSE IF rd.pc # "idle" \/ calls.read_document > 0 THEN "document"
    ELSE IF calls.decode > 0 THEN "decode"
    ELSE "none"

IsUnsupportedKind(e) ==
    e.type = "ValueError" /\ e.msg # <<>> /\ e.msg[1] = UnsupportedKind(<<>>).msg[1]

Dispatched == pc \notin {"direct", "received", "validated"} /\ request.file.t # "nofile"

\* C12: the extraction path is decided by the filename's suffix compared
\* without regard to letter case (.jpg/.jpeg/.png: the OCR reader, .pdf/.docx:
\* the document extractor, .py/.java: direct decoding, so names that differ
\* only in case take the same path), exactly one path is taken, and an
\* extraction dispatched by the handler never fails with UnsupportedKind.
C12_PathBySuffix ==
    /\ Dispatched =>
          /\ PathTaken = ExpectedPath(request.file.filename)
          /\ calls.read_image + calls.read_document + calls.decode <= 1
          /\ calls.read_image = 1 => PathTaken = "ocr"
          /\ calls.read_document = 1 => PathTaken = "document"
    /\ pc # "direct" =>
          /\ rd.pc # "idle" => ~IsUnsupportedKind(rd.exc)
          /\ ~IsUnsupportedKind(caught)

C12_Witness ==
    /\ pc = "extracted"
    /\ request.file.filename = Chars("a.PDF")
    /\ calls.read_document = 1
    /\ calls.read_image = 0 /\ calls.decode = 0

\* position of a handler stage in the sequence of the specification; the
\* handler waiting for the extractor is still in validated, waiting for
\* analyze_content still in prompted
StageOf(p) ==
    CASE p = "received" -> 1
      [] p \in {"validated", "extracting"} -> 2
      [] p = "extracted" -> 3
      [] p \in {"prompted", "analyzing"} -> 4
      [] p = "analyzed" -> 5
      [] p = "interpreted" -> 6
      [] p = "responded" -> 7
      [] OTHER -> 0

StageStep ==
    (pc # "direct" /\ pc' # pc) =>
        /\ ~Terminal
        /\ pc' = "error" \/ StageOf(pc') \in {StageOf(pc), StageOf(pc) + 1}
        /\ StageOf(pc') = StageOf(pc) => <<pc, pc'>> \in {<<"validated", "extracting">>, <<"prompted", "analyzing">>}

StageState ==
    pc # "direct" =>
        /\ calls.analyze_content <= 1 /\ calls.build <= 1 /\ calls.invoke <= 1
        /\ (ac.pc # "idle" \/ ~NoRemoteCall) =>
              /\ StageOf(pc) >= 4 \/ pc = "error"
              /\ request.file.t # "nofile"
              /\ text_content.t = "text"
              /\ calls.read_image + calls.read_document + calls.decode = 1
        /\ (response.t = "response" /\ response.status = 200) =>
              /\ pc = "responded"
              /\ Truthy(result)
              /\ calls.analyze_content = 1

\* C13: a request moves through received, validated, extracted, prompted,
\* analyzed, interpreted, responded one stage at a time, never back and never
\* past a stage, and leaves the sequence only to the error state, where it
\* stays; analyze_content is entered at most once and only after validation
\* and extraction succeeded; a 200 response exists only in responded, which
\* is entered from interpreted.
C13_StagesInOrder == []StageState /\ [][StageStep]_vars

C13_Witness ==
    /\ pc = "responded"
    /\ response.status = 200
    /\ calls.analyze_content = 1
    /\ calls.invoke = 1
    /\ calls.read_document = 1

\* responded carries a result and no error, error carries an error and no result
OneOutcome ==
    /\ pc = "responded" =>
          /\ response.status = 200
          /\ response.body.t # "None"
          /\ caught.type = "none"
    /\ pc = "error" =>
          /\ response.status >= 400
          /\ response.body.t = "None"
          /\ caught.type # "none"
    /\ pc \notin {"responded", "error"} => response.t = "None"

\* a request that has ended stays as it ended
TerminalIsFinal == Terminal => (pc' = pc /\ response' = response)

\* C14: when the extraction calls and the remote call return or raise, every
\* request reaches responded or error, exactly one of them and for good: a
\* response is either a result or an error, never both, and no request stays
\* open forever.
C14_EveryRequestEnds ==
    /\ (pc = "received") ~> Terminal
    /\ []OneOutcome
    /\ [][TerminalIsFinal]_vars

C14_Witness ==
    /\ pc = "error"
    /\ calls.invoke = 1
    /\ result.t = "None"
    /\ response.status = 500
    /\ response.body.t = "None"

\* the blob is well-formed UTF-8 over Bytes
RECURSIVE IsValidUTF8(_)
IsValidUTF8(b) ==
    \/ b = <<>>
    \/ b[1] < 128 /\ IsValidUTF8(Tail(b))
    \/ b[1] = 195 /\ Len(b) >= 2 /\ b[2] \in 128..191 /\ IsValidUTF8(SubSeq(b, 3, Len(b)))

\* the characters the blob encodes where it is well-formed
RECURSIVE LiteralText(_)
LiteralText(b) ==
    IF b = <<>> THEN <<>>
    ELSE IF b[1] < 128 THEN <<"a">> \o LiteralText(Tail(b))
    ELSE <<"U+00E9">> \o LiteralText(SubSeq(b, 3, Len(b)))

IsMarker(c) == c = REPLACEMENT_MARKER
NotMarker(c) == ~IsMarker(c)

\* the request took the direct-decoding branch of line 60
Decoded == pc # "direct" /\ calls.decode = 1

DecodedDirectly ==
    Decoded =>
        /\ text_content.t = "text"
        /\ calls.read_document = 0 /\ calls.read_image = 0
        /\ ri.pc = "idle" /\ rd.pc = "idle"
        /\ tempfiles = {}
        /\ ~RaisedByExtraction
        /\ IsValidUTF8(request.file.bytes) => text_content.s = LiteralText(request.file.bytes)

\* C15 as stated: a .py or .java upload is decoded directly, decoding never
\* fails, valid UTF-8 gives the literal text, and every undecodable sequence
\* shows in the text as a replacement marker.
C15_UndecodableIsReplaced ==
    /\ DecodedDirectly
    /\ Decoded => text_content.s = decode_utf8_replace(request.file.bytes)

\* C15 amended: a .py or .java upload is decoded directly without the
\* extractor or chunking, decoding never fails, valid UTF-8 gives the literal
\* text, and every undecodable sequence is dropped: the text is what remains
\* of the input's characters, with no marker where bytes were left out.
C15_UndecodableIsDropped ==
    /\ DecodedDirectly
    /\ Decoded =>
          /\ text_content.s = SelectSeq(decode_utf8_replace(request.file.bytes), NotMarker)
          /\ \A i \in 1..Len(text_content.s) : ~IsMarker(text_content.s[i])

C15_Witness ==
    /\ pc = "extracted"
    /\ calls.decode = 1
    /\ request.file.bytes = <<195, 97>>
    /\ text_content.s = <<"a">>

\* the handler has built the content of line 64
Prompted == pc # "direct" /\ (StageOf(pc) >= 4 \/ (pc = "error" /\ calls.analyze_content = 1))

\* the handler's call of analyze_content has come back
AnalysisReturned ==
    /\ pc # "direct"
    /\ \/ ac.pc = "returned"
       \/ StageOf(pc) >= 5
       \/ pc = "error" /\ calls.analyze_content = 1

ContentIsLabelled ==
    /\ Prompted =>
          /\ ~IsBlank(content)
          /\ ~is_empty_content(content)
          /\ content = LABEL_QUESTION \o request.question \o LABEL_FILE_CONTENT \o text_content.s
    /\ (pc # "direct" /\ ac.pc # "idle") =>
          /\ ac.content = content
          /\ ~IsBlank(ac.content)

\* C16 as stated: on the HTTP path the content handed to analyze_content is
\* never blank, the short circuit is never taken, and the remote service is
\* invoked, whatever the extracted text.
C16_RemoteAlwaysInvoked ==
    /\ ContentIsLabelled
    /\ AnalysisReturned => (calls.build = 1 /\ calls.invoke = 1)

\* C16 amended: on the HTTP path the content handed to analyze_content is
\* never blank, so the short circuit is never taken: the call always goes on
\* to build the chain, and it invokes the remote service exactly when
\* building the chain did not raise, whatever the extracted text.
C16_ShortCircuitNeverTaken ==
    /\ ContentIsLabelled
    /\ AnalysisReturned => (calls.build = 1 /\ calls.invoke <= 1)
    /\ (pc # "direct" /\ ac.pc = "returned") => (calls.invoke = 1 <=> ac.exc # BUILD_ERROR)
    /\ (pc # "direct" /\ ac.pc \in {"invoke", "debug"}) => ac.exc.type = "none"

C16_Witness ==
    /\ pc = "analyzed"
    /\ request.question = <<" ">>
    /\ text_content.s = <<>>
    /\ calls.build = 1
    /\ calls.invoke = 1

====
